---- MODULE Spec2Model ----
(***************************************************************************)
(* Model of commands/extract_csv.py: PostgreSQLDumpParser (the dump        *)
(* scanner and the export comparator) and main.                            *)
(*                                                                         *)
(* A source line is a sequence of lexical tokens, each a string: a word    *)
(* (a maximal run of \w characters), one whitespace character, or one      *)
(* punctuation character.  A field, a column name and a table name are     *)
(* strings, obtained by concatenating tokens.                              *)
(***************************************************************************)
EXTENDS Integers, Sequences, FiniteSets, TLC

(* Bound on the number of lines of the source document. *)
MaxLines == 4

(* Bound on the number of lines of a file of the previous export. *)
MaxOldLines == 3

----------------------------------------------------------------------------
(* Lexical helpers *)

(* None, as parse_data_row returns it *)
None == <<"<None>">>

(* None, as re.match and parse_copy_statement return it *)
NoMatch == [matched |-> FALSE]

IsSpace(t) == t \in {" ", "\t", "\n"}

(* str.lower() on the words of the input alphabet *)
Lower(w) ==
  CASE w = "COPY"   -> "copy"
    [] w = "FROM"   -> "from"
    [] w = "STDIN"  -> "stdin"
    [] w = "PUBLIC" -> "public"
    [] OTHER        -> w

IsWord(t) ==
  t \in {"COPY", "copy", "FROM", "from", "stdin", "STDIN", "public", "PUBLIC",
         "ar", "orders", "items", "id", "total", "sku", "N", "x", "1", "2", "9", "99"}

At(l, i) == IF i >= 1 /\ i <= Len(l) THEN l[i] ELSE ""

RECURSIVE Concat(_)
Concat(toks) == IF toks = <<>> THEN "" ELSE Head(toks) \o Concat(Tail(toks))

(* the regular expression's \s* from position i: the first non-space position *)
RECURSIVE SkipSpace(_, _)
SkipSpace(l, i) == IF i <= Len(l) /\ IsSpace(l[i]) THEN SkipSpace(l, i + 1) ELSE i

RECURSIVE LStrip(_)
LStrip(l) == IF l # <<>> /\ IsSpace(Head(l)) THEN LStrip(Tail(l)) ELSE l

RECURSIVE RStrip(_)
RStrip(l) ==
  IF l # <<>> /\ IsSpace(l[Len(l)]) THEN RStrip(SubSeq(l, 1, Len(l) - 1)) ELSE l

(* str.strip() *)
Strip(l) == LStrip(RStrip(l))

(* str.rstrip('\n') *)
RECURSIVE RStripNewline(_)
RStripNewline(l) ==
  IF l # <<>> /\ l[Len(l)] = "\n" THEN RStripNewline(SubSeq(l, 1, Len(l) - 1)) ELSE l

(* str.split(sep) on a token sequence: the pieces between the separators *)
RECURSIVE SplitFrom(_, _, _, _)
SplitFrom(l, sep, i, cur) ==
  IF i > Len(l) THEN <<cur>>
  ELSE IF l[i] = sep THEN <<cur>> \o SplitFrom(l, sep, i + 1, <<>>)
  ELSE SplitFrom(l, sep, i + 1, Append(cur, l[i]))

Split(l, sep) == SplitFrom(l, sep, 1, <<>>)

----------------------------------------------------------------------------
(* parse_copy_statement *)

(* \)\s+FROM\s+stdin with the closing parenthesis at position j *)
TailMatch(l, j) ==
  LET k == SkipSpace(l, j + 1)
      m == SkipSpace(l, k + 1)
  IN /\ At(l, j) = ")"
     /\ k > j + 1
     /\ Lower(At(l, k)) = "from"
     /\ m > k + 1
     /\ Lower(At(l, m)) = "stdin"

(* (.*?) from position p: the first closing parenthesis after which the rest
   of the pattern matches; '.' does not match a newline.  0 when none. *)
ColumnsEnd(l, p) ==
  LET ok == {j \in p..Len(l) :
               /\ TailMatch(l, j)
               /\ \A i \in p..(j - 1) : l[i] # "\n"}
  IN IF ok = {} THEN 0 ELSE CHOOSE j \in ok : \A j2 \in ok : j <= j2

(* \s*\((.*?)\)\s+FROM\s+stdin after the table word at position t *)
AfterTable(l, t) ==
  LET p == SkipSpace(l, t + 1)
  IN IF At(l, p) = "(" THEN ColumnsEnd(l, p + 1) ELSE 0

(* re.match(pattern, line, re.IGNORECASE): the groups, or None *)
MatchCopy(l) ==
  LET s == SkipSpace(l, 2)
      withSchema == /\ IsWord(At(l, s)) /\ At(l, s + 1) = "." /\ IsWord(At(l, s + 2))
                    /\ AfterTable(l, s + 2) > 0
      bare == IsWord(At(l, s)) /\ AfterTable(l, s) > 0
  IN IF ~(Lower(At(l, 1)) = "copy" /\ s > 2) THEN NoMatch
     ELSE IF withSchema
       THEN LET e == AfterTable(l, s + 2)
                p == SkipSpace(l, s + 3) + 1
            IN [matched |-> TRUE, schema |-> l[s], table |-> l[s + 2],
                columns_str |-> SubSeq(l, p, e - 1)]
     ELSE IF bare
       THEN LET e == AfterTable(l, s)
                p == SkipSpace(l, s + 1) + 1
            IN [matched |-> TRUE, schema |-> "", table |-> l[s],
                columns_str |-> SubSeq(l, p, e - 1)]
     ELSE NoMatch

(* one column of the list: stripped, surrounding double quotes removed *)
Column(c) ==
  LET col == Strip(c)
  IN IF col # <<>> /\ Head(col) = "\"" /\ col[Len(col)] = "\""
       THEN Concat(SubSeq(col, 2, Len(col) - 1))
       ELSE Concat(col)

FullTableName_NoDefaultSchema(schema, table_name) ==
  IF schema # "" THEN schema \o "_" \o table_name ELSE table_name

FullTableName(schema, table_name) ==
  IF schema # "" /\ Lower(schema) # "public"
    THEN schema \o "_" \o table_name
    ELSE table_name

parse_copy_statement(l) ==
  LET m == MatchCopy(l)
  IN IF ~m.matched THEN NoMatch
     ELSE LET parts == Split(m.columns_str, ",")
          IN [matched |-> TRUE,
              table_name |-> FullTableName(m.schema, m.table),
              columns |-> [i \in 1..Len(parts) |-> Column(parts[i])]]

----------------------------------------------------------------------------
(* parse_data_row *)

NullToEmpty_ReplaceAnywhere(f) ==
  CASE f = "\\N"  -> ""
    [] f = "x\\N" -> "x"
    [] f = "\\Nx" -> "x"
    [] OTHER     -> f

NullToEmpty(f) == IF f = "\\N" THEN "" ELSE f

parse_data_row(l) ==
  IF l = <<"\\", ".", "\n">> \/ l = <<"\\", ".">> THEN None
  ELSE LET parts == Split(RStripNewline(l), "\t")
       IN [i \in 1..Len(parts) |-> NullToEmpty(Concat(parts[i]))]

----------------------------------------------------------------------------
(* The source document: the lines the scanner can read *)

HeaderPublic ==
  <<"COPY", " ", "public", ".", "orders", " ", "(", "id", ",", " ", "total", ")",
    " ", "FROM", " ", "stdin", ";", "\n">>
HeaderAr ==
  <<"COPY", " ", "ar", ".", "items", " ", "(", "sku", ")", " ", "FROM", " ", "stdin", ";", "\n">>
HeaderUpperPublic ==
  <<"COPY", " ", "PUBLIC", ".", "items", " ", "(", "\"", "sku", "\"", ")",
    " ", "from", " ", "STDIN", ";", "\n">>
HeaderBare ==
  <<"COPY", " ", "items", "(", "sku", ")", " ", "FROM", " ", "stdin", ";", "\n">>
HeaderLower ==
  <<"copy", " ", "ar", ".", "orders", " ", "(", "id", ")", " ", "from", " ", "stdin", ";", "\n">>
HeaderNoColumns ==
  <<"COPY", " ", "ar", ".", "items", " ", "FROM", " ", "stdin", ";", "\n">>
RowTwo == <<"1", "\t", "9", ".", "99", "\n">>
RowTwoNull == <<"2", "\t", "\\", "N", "\n">>
RowOneNull == <<"\\", "N", "\n">>
RowOneContainsNull == <<"x", "\\", "N", "\n">>
RowLastNoNewline == <<"\\", "N", "\t", "\\", "N", "x">>
EndOfBlock == <<"\\", ".", "\n">>
EndOfBlockPadded == <<"\\", ".", " ", "\n">>

Lines ==
  {HeaderPublic, HeaderAr, HeaderUpperPublic, HeaderBare, HeaderLower, HeaderNoColumns,
   RowTwo, RowTwoNull, RowOneNull, RowOneContainsNull, RowLastNoNewline,
   EndOfBlock, EndOfBlockPadded}

(* a file of the output directory left by an earlier run (the directory is
   reused, not cleared) *)
StaleFile == <<<<"sku">>, <<"old">>, <<"older">>>>

EmptyDir == [f \in {} |-> <<>>]

----------------------------------------------------------------------------
VARIABLES
  pc,               \* position of main: "main", "scan", "scanned", "compared", "exit"
  source_exists,    \* source_path.exists()
  no_compare,       \* args.no_compare
  files,            \* the output directory: file name -> the records written to it
  output_dir_made,  \* self.output_dir.mkdir(exist_ok=True) was executed
  handles,          \* every file object opened for writing: [name, open]
  current_csv,      \* index into handles, 0 for None
  in_copy_data,
  current_table,    \* self.current_table, "" for None
  current_columns,  \* self.current_columns
  tables_found,
  total_rows,
  line_num,
  line,             \* the loop variable: the line being processed
  result,           \* what process_dump returned: "running", "True", "False"
  log,              \* the messages emitted, in order
  max_open,         \* the largest number of write handles open at one instant
  last_export,      \* the previous-export directory as main finds it
  report,           \* the classifications compare_with_last_export emitted
  exit_status       \* -1 while running

vars ==
  <<pc, source_exists, no_compare, files, output_dir_made, handles, current_csv,
    in_copy_data, current_table, current_columns, tables_found, total_rows,
    line_num, line, result, log, max_open, last_export, report, exit_status>>

scan_vars ==
  <<handles, current_csv, in_copy_data, current_table, current_columns,
    tables_found, total_rows, line_num, line, max_open>>

Msg(kind, what, n) == [kind |-> kind, what |-> what, n |-> n]

CsvName(table_name) == table_name \o ".csv"

OpenCount(hs) == Cardinality({i \in 1..Len(hs) : hs[i].open})

Max(a, b) == IF a >= b THEN a ELSE b

CloseCurrent_Forgotten(hs, cur) == hs

(* if current_csv: current_csv.close() -- closing a closed file is a no-op *)
CloseCurrent(hs, cur) ==
  IF cur # 0 THEN [hs EXCEPT ![cur].open = FALSE] ELSE hs

(* open(csv_path, 'w', ...): a new file object; the file is created or truncated *)
OpenForWrite(hs, name) == Append(hs, [name |-> name, open |-> TRUE])

(* line.startswith('COPY ') *)
StartsWithCopy(l) == At(l, 1) = "COPY" /\ At(l, 2) = " "

(* line.strip() == '\\.' *)
IsEndOfData(l) == Concat(Strip(l)) = "\\."

(* sum(1 for _ in open(path)) while the file is still open for writing and
   buffered: the reader sees whatever has been flushed so far, any number of
   lines from none to all of those written *)
VisibleLineCounts(content) == 0..Len(content)

Init ==
  /\ pc = "main"
  /\ source_exists \in BOOLEAN
  /\ no_compare \in BOOLEAN
  /\ files \in {EmptyDir, ("items.csv" :> StaleFile)}
  /\ output_dir_made = FALSE
  /\ handles = <<>>
  /\ current_csv = 0
  /\ in_copy_data = FALSE
  /\ current_table = ""
  /\ current_columns = <<>>
  /\ tables_found = 0
  /\ total_rows = 0
  /\ line_num = 0
  /\ line = <<>>
  /\ result = "running"
  /\ log = <<>>
  /\ max_open = 0
  /\ last_export = [observed |-> FALSE, exists |-> FALSE, files |-> EmptyDir]
  /\ report = <<>>
  /\ exit_status = -1

----------------------------------------------------------------------------
(* main, before the scan *)

MainSourceMissing ==
  /\ pc = "main"
  /\ ~source_exists
  /\ log' = Append(log, Msg("error", "Source file not found", 0))
  /\ exit_status' = 1
  /\ pc' = "exit"
  /\ UNCHANGED <<source_exists, no_compare, files, output_dir_made, scan_vars,
                 result, last_export, report>>

BeginProcessDump ==
  /\ pc = "main"
  /\ source_exists
  /\ output_dir_made' = TRUE
  /\ pc' = "scan"
  /\ UNCHANGED <<source_exists, no_compare, files, scan_vars, result, log,
                 last_export, report, exit_status>>

----------------------------------------------------------------------------
(* process_dump: one iteration of the loop over the lines of the source.  The
   progress message every 100,000 lines is beyond MaxLines and is left out;
   current_writer is set and used together with current_csv. *)

CanRead ==
  /\ pc = "scan"
  /\ line_num < MaxLines
  /\ IF line_num = 0 THEN TRUE ELSE line[Len(line)] = "\n"  \* only the last line can lack a newline

HeaderStep(l, r) ==
  LET closed == CloseCurrent(handles, current_csv)
      opened == OpenForWrite(closed, CsvName(r.table_name))
  IN /\ handles' = opened
     /\ current_csv' = Len(opened)
     /\ max_open' = Max(max_open, Max(OpenCount(closed), OpenCount(opened)))
     /\ files' = (CsvName(r.table_name) :> <<r.columns>>) @@ files
     /\ log' = Append(log, Msg("extract", r.table_name, 0))
     /\ current_table' = r.table_name
     /\ current_columns' = r.columns
     /\ in_copy_data' = TRUE
     /\ tables_found' = tables_found + 1
     /\ total_rows' = total_rows

EndOfDataStep ==
  \E n \in VisibleLineCounts(files[CsvName(current_table)]) :
    LET rows_in_table == n - 1
    IN /\ in_copy_data' = FALSE
       /\ total_rows' = total_rows + rows_in_table
       /\ log' = Append(log, Msg("rows", current_table, rows_in_table))
       /\ UNCHANGED <<files, handles, current_csv, max_open, current_table,
                      current_columns, tables_found>>

DataRowStep(l) ==
  LET fields == parse_data_row(l)
  IN /\ IF fields # None /\ fields # <<>> /\ current_csv # 0
          THEN IF Len(fields) = Len(current_columns)
                 THEN /\ files' = [files EXCEPT ![handles[current_csv].name] = Append(@, fields)]
                      /\ log' = log
                 ELSE /\ log' = Append(log, Msg("skip", current_table, 0))
                      /\ files' = files
          ELSE UNCHANGED <<files, log>>
     /\ UNCHANGED <<handles, current_csv, max_open, in_copy_data, current_table,
                    current_columns, tables_found, total_rows>>

ReadLine(l) ==
  /\ CanRead
  /\ line' = l
  /\ line_num' = line_num + 1
  /\ IF StartsWithCopy(l) /\ parse_copy_statement(l).matched
       THEN HeaderStep(l, parse_copy_statement(l))
     ELSE IF in_copy_data
       THEN IF IsEndOfData(l) THEN EndOfDataStep ELSE DataRowStep(l)
     ELSE UNCHANGED <<files, handles, current_csv, max_open, in_copy_data, current_table,
                      current_columns, tables_found, total_rows, log>>
  /\ UNCHANGED <<pc, source_exists, no_compare, output_dir_made, result,
                 last_export, report, exit_status>>

(* the end of the input: close the last file, report, return True *)
EndOfInput ==
  /\ pc = "scan"
  /\ handles' = CloseCurrent(handles, current_csv)
  /\ log' = log \o <<Msg("tables", "", tables_found), Msg("total", "", total_rows)>>
  /\ result' = "True"
  /\ pc' = "scanned"
  /\ UNCHANGED <<source_exists, no_compare, files, output_dir_made, current_csv,
                 in_copy_data, current_table, current_columns, tables_found, total_rows,
                 line_num, line, max_open, last_export, report, exit_status>>

OnException_NoClose(hs, cur) == hs

(* except Exception: log, close the current file if any, return False *)
OnException(hs, cur) == CloseCurrent(hs, cur)

(* reading the source raises *)
RaiseOnRead ==
  /\ pc = "scan"
  /\ handles' = OnException(handles, current_csv)
  /\ log' = Append(log, Msg("error", "Error processing dump", 0))
  /\ result' = "False"
  /\ pc' = "scanned"
  /\ UNCHANGED <<source_exists, no_compare, files, output_dir_made, current_csv,
                 in_copy_data, current_table, current_columns, tables_found, total_rows,
                 line_num, line, max_open, last_export, report, exit_status>>

(* a header line is recognized, the previous file is closed, and opening the
   new file raises *)
RaiseOnOpen(l) ==
  /\ CanRead
  /\ StartsWithCopy(l) /\ parse_copy_statement(l).matched
  /\ line' = l
  /\ line_num' = line_num + 1
  /\ LET closed == CloseCurrent(handles, current_csv)
     IN /\ handles' = OnException(closed, current_csv)
        /\ max_open' = Max(max_open, OpenCount(closed))
  /\ log' = log \o <<Msg("extract", parse_copy_statement(l).table_name, 0),
                     Msg("error", "Error processing dump", 0)>>
  /\ result' = "False"
  /\ pc' = "scanned"
  /\ UNCHANGED <<source_exists, no_compare, files, output_dir_made, current_csv,
                 in_copy_data, current_table, current_columns, tables_found, total_rows,
                 last_export, report, exit_status>>

(* the new file is opened and writing its header record raises *)
RaiseOnWrite(l) ==
  /\ CanRead
  /\ StartsWithCopy(l) /\ parse_copy_statement(l).matched
  /\ line' = l
  /\ line_num' = line_num + 1
  /\ LET r == parse_copy_statement(l)
         closed == CloseCurrent(handles, current_csv)
         opened == OpenForWrite(closed, CsvName(r.table_name))
     IN /\ handles' = OnException(opened, Len(opened))
        /\ current_csv' = Len(opened)
        /\ max_open' = Max(max_open, Max(OpenCount(closed), OpenCount(opened)))
        /\ files' = (CsvName(r.table_name) :> <<>>) @@ files
        /\ log' = log \o <<Msg("extract", r.table_name, 0),
                           Msg("error", "Error processing dump", 0)>>
  /\ result' = "False"
  /\ pc' = "scanned"
  /\ UNCHANGED <<source_exists, no_compare, output_dir_made,
                 in_copy_data, current_table, current_columns, tables_found, total_rows,
                 last_export, report, exit_status>>

----------------------------------------------------------------------------
(* compare_with_last_export *)

(* the file names of the model in the order sorted() gives them *)
NameOrder ==
  <<"PUBLIC_items.csv", "ar_items.csv", "ar_orders.csv", "items.csv", "orders.csv",
    "public_items.csv", "public_orders.csv">>

Rank(name) ==
  IF \E i \in 1..Len(NameOrder) : NameOrder[i] = name
    THEN CHOOSE i \in 1..Len(NameOrder) : NameOrder[i] = name
    ELSE 0

(* sorted(names) *)
RECURSIVE Sorted(_)
Sorted(names) ==
  IF names = {} THEN <<>>
  ELSE LET first == CHOOSE a \in names : \A b \in names : Rank(a) <= Rank(b)
       IN <<first>> \o Sorted(names \ {first})

(* sum(1 for _ in f) - 1 *)
DataLineCount(content) == Len(content) - 1

Verdict(name, status, rows, diff, plus) ==
  [file |-> name, status |-> status, rows |-> rows, diff |-> diff, plus |-> plus]

Classify_OldMinusNew(name, new_dir, old_dir) ==
  IF name \notin DOMAIN old_dir THEN Verdict(name, "NEW", 0, 0, FALSE)
  ELSE IF name \notin DOMAIN new_dir THEN Verdict(name, "MISSING", 0, 0, FALSE)
  ELSE LET new_count == DataLineCount(new_dir[name])
           old_count == DataLineCount(old_dir[name])
           diff == old_count - new_count
       IN IF new_count = old_count THEN Verdict(name, "UNCHANGED", new_count, 0, FALSE)
          ELSE Verdict(name, "CHANGED", new_count, diff, diff > 0)

(* the body of the loop over the file names *)
Classify(name, new_dir, old_dir) ==
  IF name \notin DOMAIN old_dir THEN Verdict(name, "NEW", 0, 0, FALSE)
  ELSE IF name \notin DOMAIN new_dir THEN Verdict(name, "MISSING", 0, 0, FALSE)
  ELSE LET new_count == DataLineCount(new_dir[name])
           old_count == DataLineCount(old_dir[name])
           diff == new_count - old_count
       IN IF new_count = old_count THEN Verdict(name, "UNCHANGED", new_count, 0, FALSE)
          ELSE Verdict(name, "CHANGED", new_count, diff, diff > 0)

compare_with_last_export(new_dir, last) ==
  IF ~last.exists THEN <<>>
  ELSE LET names == Sorted(DOMAIN new_dir \cup DOMAIN last.files)
       IN [i \in 1..Len(names) |-> Classify(names[i], new_dir, last.files)]

----------------------------------------------------------------------------
(* main, after the scan *)

ShouldCompare_FlagIgnored(flag, exists) == exists

(* if not args.no_compare and compare_path.exists() *)
ShouldCompare(flag, exists) == ~flag /\ exists

(* a directory whose files have the given numbers of lines *)
DirOfCounts(counts) ==
  [f \in DOMAIN counts |-> [i \in 1..counts[f] |-> <<"r">>]]

ExportNames == {"ar_items.csv", "items.csv", "orders.csv"}

AllDirs ==
  UNION {{DirOfCounts(c) : c \in [S -> 0..MaxOldLines]} : S \in SUBSET ExportNames}

(* the previous exports the scan's run is compared with: a copy of the new
   export, an empty directory, and a fixed earlier export *)
SampleDirs(new_dir) ==
  {new_dir, EmptyDir, ("items.csv" :> StaleFile) @@ ("orders.csv" :> <<<<"id", "total">>>>)}

MainCompare(dirs) ==
  /\ pc = "scanned"
  /\ result = "True"
  /\ \E exists \in BOOLEAN, d \in dirs :
       /\ ShouldCompare(no_compare, exists)
       /\ last_export' = [observed |-> TRUE, exists |-> exists,
                          files |-> IF exists THEN d ELSE EmptyDir]
       /\ report' = compare_with_last_export(files, last_export')
       /\ log' = Append(log, IF exists
                               THEN Msg("section", "Comparing with Last Export", 0)
                               ELSE Msg("warning", "Last export directory not found", 0))
  /\ pc' = "compared"
  /\ UNCHANGED <<source_exists, no_compare, files, output_dir_made, scan_vars,
                 result, exit_status>>

MainFinishCompared ==
  /\ pc = "compared"
  /\ log' = Append(log, Msg("success", "Extraction completed successfully!", 0))
  /\ exit_status' = 0
  /\ pc' = "exit"
  /\ UNCHANGED <<source_exists, no_compare, files, output_dir_made, scan_vars,
                 result, last_export, report>>

MainSkipCompare ==
  /\ pc = "scanned"
  /\ result = "True"
  /\ \E exists \in BOOLEAN :
       /\ ~ShouldCompare(no_compare, exists)
       /\ last_export' = [observed |-> ~no_compare, exists |-> exists, files |-> EmptyDir]
  /\ log' = Append(log, Msg("success", "Extraction completed successfully!", 0))
  /\ exit_status' = 0
  /\ pc' = "exit"
  /\ UNCHANGED <<source_exists, no_compare, files, output_dir_made, scan_vars,
                 result, report>>

MainFailed ==
  /\ pc = "scanned"
  /\ result = "False"
  /\ log' = Append(log, Msg("error", "Extraction failed!", 0))
  /\ exit_status' = 1
  /\ pc' = "exit"
  /\ UNCHANGED <<source_exists, no_compare, files, output_dir_made, scan_vars,
                 result, last_export, report>>

----------------------------------------------------------------------------
Next ==
  \/ MainSourceMissing
  \/ BeginProcessDump
  \/ \E l \in Lines : ReadLine(l)
  \/ EndOfInput
  \/ RaiseOnRead
  \/ \E l \in Lines : RaiseOnOpen(l)
  \/ \E l \in Lines : RaiseOnWrite(l)
  \/ MainCompare(SampleDirs(files))
  \/ MainFinishCompared
  \/ MainSkipCompare
  \/ MainFailed

Spec == Init /\ [][Next]_vars

(* The comparator on its own: main has returned from a successful scan and the
   two directories are drawn from all the directories within the bounds. *)
InitCompare ==
  /\ pc = "scanned"
  /\ source_exists = TRUE
  /\ no_compare \in BOOLEAN
  /\ files \in AllDirs
  /\ output_dir_made = TRUE
  /\ handles = <<>>
  /\ current_csv = 0
  /\ in_copy_data = FALSE
  /\ current_table = ""
  /\ current_columns = <<>>
  /\ tables_found = 0
  /\ total_rows = 0
  /\ line_num = 0
  /\ line = <<>>
  /\ result = "True"
  /\ log = <<>>
  /\ max_open = 0
  /\ last_export = [observed |-> FALSE, exists |-> FALSE, files |-> EmptyDir]
  /\ report = <<>>
  /\ exit_status = -1

NextCompare ==
  \/ MainCompare(AllDirs)
  \/ MainFinishCompared
  \/ MainSkipCompare

SpecCompare == InitCompare /\ [][NextCompare]_vars

----------------------------------------------------------------------------
(* Properties *)

Last(q) == q[Len(q)]

(* a step of the loop that processes one more line and stays in the loop *)
LineStep == pc = "scan" /\ pc' = "scan" /\ line_num' = line_num + 1

(* the line was recognized as a section header by process_dump *)
RecognizedHeader(l) == StartsWithCopy(l) /\ parse_copy_statement(l).matched

(* The fields of a line as the specification describes them: the line without
   its trailing newline, cut at each tab, a field that is exactly \N emptied. *)
BodyOf(l) == IF l # <<>> /\ l[Len(l)] = "\n" THEN SubSeq(l, 1, Len(l) - 1) ELSE l

TabPositions(b) == {i \in 1..Len(b) : b[i] = "\t"}

NthTab(b, k) ==
  IF k = 0 THEN 0
  ELSE IF k > Cardinality(TabPositions(b)) THEN Len(b) + 1
  ELSE CHOOSE p \in TabPositions(b) : Cardinality({q \in TabPositions(b) : q <= p}) = k

FieldAt(b, k) == Concat(SubSeq(b, NthTab(b, k - 1) + 1, NthTab(b, k) - 1))

RefFields(l) ==
  LET b == BodyOf(l)
  IN [k \in 1..(Cardinality(TabPositions(b)) + 1) |->
        IF FieldAt(b, k) = "\\N" THEN "" ELSE FieldAt(b, k)]

(* C1: whenever the row count of a table has just been reported at the
   end-of-block sentinel, the reported count equals the number of data lines
   (header excluded) of the table's output file. *)
C1_RowCountRoundTrip ==
  (log # <<>> /\ Last(log).kind = "rows")
    => Last(log).n = DataLineCount(files[CsvName(Last(log).what)])

(* C2: a line read inside a data block that is not the end of the block and
   whose field count differs from the column count is not written, not
   counted, warned about, and leaves the data-block state, the active table
   and the open output unchanged. *)
C2_MalformedRowSkipped ==
  [][(/\ LineStep
      /\ in_copy_data
      /\ ~IsEndOfData(line')
      /\ Len(RefFields(line')) # Len(current_columns))
     => (/\ files' = files
         /\ total_rows' = total_rows
         /\ log' = Append(log, Msg("skip", current_table, 0))
         /\ in_copy_data'
         /\ current_table' = current_table
         /\ handles' = handles
         /\ current_csv' = current_csv)]_vars

(* C3: the record written for an accepted data line has exactly the fields of
   the line cut at the tabs, in order, a field that is exactly \N emptied and
   every other field unchanged; nothing else is written to the file. *)
C3_RecordIsSplitLine ==
  [][(/\ LineStep
      /\ in_copy_data
      /\ ~RecognizedHeader(line')
      /\ files' # files)
     => (/\ current_csv # 0
         /\ files' = [files EXCEPT ![handles[current_csv].name] =
                                      Append(@, RefFields(line'))]
         /\ Len(RefFields(line')) = Len(current_columns))]_vars

C3_Witness ==
  /\ pc = "scan"
  /\ in_copy_data
  /\ line = RowLastNoNewline
  /\ Last(files[CsvName(current_table)]) = <<"", "\\Nx">>

(* the table name of the specification: the default schema is 'public' *)
NameDefaultExact(schema, table) ==
  IF schema \in {"", "public"} THEN table ELSE schema \o "_" \o table

(* the table name with the default schema compared without regard to case *)
NameDefaultAnyCase(schema, table) ==
  IF schema \in {"", "public", "PUBLIC"} THEN table ELSE schema \o "_" \o table

(* what reading one line does about headers, given the naming rule *)
HeaderOutcome(expected_table, matched) ==
  /\ matched => parse_copy_statement(line').table_name = expected_table
  /\ IF matched /\ StartsWithCopy(line')
       THEN /\ current_table' = expected_table
            /\ Len(handles') = Len(handles) + 1
            /\ Last(handles').name = CsvName(expected_table)
            /\ CsvName(expected_table) \in DOMAIN files'
       ELSE /\ handles' = handles
            /\ DOMAIN files' = DOMAIN files
            /\ current_table' = current_table
            /\ tables_found' = tables_found

(* C4 as stated: the bare table name when the schema is absent or is exactly
   'public', schema_table for every other schema; no header and no file for a
   line that does not match. *)
C4_TableNameExactPublic ==
  [][LineStep =>
       LET m == MatchCopy(line')
       IN HeaderOutcome(IF m.matched THEN NameDefaultExact(m.schema, m.table) ELSE "",
                        m.matched)]_vars

(* C4 amended: the bare table name when the schema is absent or equals
   'public' without regard to case, schema_table for every other schema; no
   header and no file for a line that does not match. *)
C4_TableNameAnyCasePublic ==
  [][LineStep =>
       LET m == MatchCopy(line')
       IN HeaderOutcome(IF m.matched THEN NameDefaultAnyCase(m.schema, m.table) ELSE "",
                        m.matched)]_vars

C4_Witness ==
  /\ pc = "scan"
  /\ line = HeaderUpperPublic
  /\ current_table = "items"
  /\ \E i \in 1..Len(handles) : handles[i].name = "ar_items.csv"

(* C5: with the previous directory present, every file name of the union is
   classified exactly once, in lexicographic order: NEW, MISSING, UNCHANGED on
   equal data-line counts, CHANGED with the signed difference new - old and a
   '+' for a positive one; a copy of the new directory is all UNCHANGED. *)
C5_Classification ==
  (pc = "compared" /\ last_export.exists) =>
    LET old == last_export.files
        names == DOMAIN files \cup DOMAIN old
    IN /\ Len(report) = Cardinality(names)
       /\ {report[i].file : i \in 1..Len(report)} = names
       /\ \A i, j \in 1..Len(report) :
            i < j => Rank(report[i].file) < Rank(report[j].file)
       /\ \A i \in 1..Len(report) :
            LET v == report[i]
            IN CASE v.file \notin DOMAIN old -> v.status = "NEW"
                 [] v.file \in DOMAIN old /\ v.file \notin DOMAIN files ->
                      v.status = "MISSING"
                 [] OTHER ->
                      LET n == Len(files[v.file]) - 1
                          o == Len(old[v.file]) - 1
                      IN IF n = o
                           THEN v.status = "UNCHANGED" /\ v.rows = n
                           ELSE /\ v.status = "CHANGED"
                                /\ v.rows = n
                                /\ v.diff = n - o
                                /\ v.plus = (n > o)
       /\ old = files => \A i \in 1..Len(report) : report[i].status = "UNCHANGED"

C5_Witness ==
  /\ pc = "compared"
  /\ last_export.exists
  /\ Len(report) = 3
  /\ report[1].status = "NEW"
  /\ report[2].status = "CHANGED" /\ report[2].plus /\ report[2].diff = 3
  /\ report[3].status = "MISSING"

(* C6: an exception during the scan is caught: the open output is closed,
   process_dump returns False and main exits with status 1; whenever
   process_dump has returned, no output file is open for writing. *)
C6_NoHandleLeftOpen ==
  /\ result # "running" => OpenCount(handles) = 0
  /\ (pc = "exit" /\ result = "False") => (exit_status = 1 /\ report = <<>>)

C6_Witness ==
  /\ pc = "exit"
  /\ result = "False"
  /\ current_csv # 0
  /\ in_copy_data
  /\ handles[current_csv].name = CsvName(current_table)

(* C7: the comparator is called only after the scan has returned success with
   every output closed, never after a failed scan, with the no-compare flag
   or without the previous directory; in the latter two cases the run still
   exits 0; a missing source exits 1 before any scanning or directory
   creation. *)
C7_ComparatorAfterScanner ==
  /\ (pc = "compared" \/ report # <<>>) =>
       /\ result = "True"
       /\ ~no_compare
       /\ last_export.exists
       /\ OpenCount(handles) = 0
       /\ \E i, j \in 1..Len(log) :
            i < j /\ log[i].kind = "total" /\ log[j].kind = "section"
  /\ (pc = "exit" /\ result = "True") => exit_status = 0
  /\ (pc = "exit" /\ ~source_exists) =>
       /\ exit_status = 1
       /\ ~output_dir_made
       /\ line_num = 0
       /\ result = "running"
       /\ handles = <<>>
       /\ DOMAIN report = {}

C7_Witness ==
  /\ pc = "exit"
  /\ exit_status = 0
  /\ ~no_compare
  /\ last_export.observed
  /\ ~last_export.exists
  /\ tables_found = 2

(* C8: inside a data block every line other than the end of the block leaves
   the active table, tables_found and the open output as they are: no header
   is recognized there. *)
C8_NoHeaderInsideBlock ==
  [][(LineStep /\ in_copy_data /\ ~IsEndOfData(line'))
     => (/\ current_table' = current_table
         /\ tables_found' = tables_found
         /\ handles' = handles
         /\ current_csv' = current_csv)]_vars

(* C9: when the input ends inside a data block the scan returns success with
   the file closed and the block's row count is taken as at a sentinel: the
   last message before the summary reports the rows of the active table. *)
C9_TruncatedBlockCounted ==
  (pc = "scanned" /\ result = "True" /\ in_copy_data) =>
    /\ OpenCount(handles) = 0
    /\ Len(log) >= 3
    /\ log[Len(log) - 2].kind = "rows"
    /\ log[Len(log) - 2].what = current_table

(* C10: at no instant is more than one output file open for writing, a header
   for a table name seen before included. *)
C10_AtMostOneOpen ==
  /\ OpenCount(handles) <= 1
  /\ max_open <= 1

C10_Witness ==
  /\ Len(handles) >= 3
  /\ handles[1].name = handles[3].name
  /\ handles[2].name # handles[1].name
  /\ handles[3].open
  /\ max_open = 1

====
